---- MODULE Spec2Model ----
(***************************************************************************)
(* Model of SecadoraInteligente/Ui.py: the serial reader thread            *)
(* (SerialWorker) and the dashboard controller (MainWindow).               *)
(*                                                                         *)
(* The UI thread runs one handler at a time; the only place where a        *)
(* handler blocks is QThread.wait() inside SerialWorker.stop(), so the     *)
(* disconnect branch of toggle_connection is split at that point.          *)
(* Signals emitted by a reader thread are queued connections: they are     *)
(* appended to the UI thread's event queue and delivered in order.         *)
(***************************************************************************)
EXTENDS Integers, Sequences, FiniteSets, TLC

\* ---------------------------------------------------------------- bounds
MaxClicks == 2      \* user clicks on the connect toggle in one run
MaxReads  == 2      \* readline() calls that return data in one run
MaxParse  == 3      \* line events fed to process_data in SpecParse

\* ------------------------------------------------------- text primitives
None == 0

Char(s, i) == SubSeq(s, i, i)

Digits == {"0", "1", "2", "3", "4", "5", "6", "7", "8", "9"}

\* \s of the re module, restricted to the ASCII whitespace characters
Whitespace == {" ", "\t", "\n", "\r", "\f"}

\* [\d.]
DigitDot == Digits \cup {"."}

\* [-\d.]
MinusDigitDot == Digits \cup {".", "-"}

\* first index >= i of s whose character is not in cls (greedy class run)
RECURSIVE SpanEnd(_, _, _)
SpanEnd(s, i, cls) ==
    IF i <= Len(s) /\ Char(s, i) \in cls THEN SpanEnd(s, i + 1, cls) ELSE i

\* does the literal lit occur in s at index i
LitAt(s, i, lit) ==
    /\ i + Len(lit) - 1 <= Len(s)
    /\ SubSeq(s, i, i + Len(lit) - 1) = lit

\* ------------------------------------------------------------ the regex
\* T:\s*([\d.]+)\s*C\s*\|\s*H:\s*([\d.]+)\s*%\s*\|\s*Peso:\s*([-\d.]+)\s*\|\s*Aquecedor:\s*(ON|OFF)
regex_pattern ==
    << [k |-> "lit", lit |-> "T:"],
       [k |-> "ws"],
       [k |-> "grp", cls |-> DigitDot],
       [k |-> "ws"],
       [k |-> "lit", lit |-> "C"],
       [k |-> "ws"],
       [k |-> "lit", lit |-> "|"],
       [k |-> "ws"],
       [k |-> "lit", lit |-> "H:"],
       [k |-> "ws"],
       [k |-> "grp", cls |-> DigitDot],
       [k |-> "ws"],
       [k |-> "lit", lit |-> "%"],
       [k |-> "ws"],
       [k |-> "lit", lit |-> "|"],
       [k |-> "ws"],
       [k |-> "lit", lit |-> "Peso:"],
       [k |-> "ws"],
       [k |-> "grp", cls |-> MinusDigitDot],
       [k |-> "ws"],
       [k |-> "lit", lit |-> "|"],
       [k |-> "ws"],
       [k |-> "lit", lit |-> "Aquecedor:"],
       [k |-> "ws"],
       [k |-> "alt", opts |-> <<"ON", "OFF">>] >>

NoMatch == <<>>

\* Match pattern elements k.. of pat against s starting at index i, having
\* captured groups g so far.  Every quantified class of the pattern is
\* followed by characters outside the class, so the greedy run is the only
\* candidate and no backtracking is needed.  Result: the groups, or NoMatch.
RECURSIVE MatchFrom(_, _, _, _, _)
MatchStep(pat, s, i, k, g) ==
    IF k > Len(pat) THEN g
    ELSE LET e == pat[k] IN
         CASE e.k = "lit" ->
                IF LitAt(s, i, e.lit)
                    THEN MatchFrom(pat, s, i + Len(e.lit), k + 1, g)
                    ELSE NoMatch
           [] e.k = "ws" ->
                MatchFrom(pat, s, SpanEnd(s, i, Whitespace), k + 1, g)
           [] e.k = "grp" ->
                LET j == SpanEnd(s, i, e.cls) IN
                IF j > i
                    THEN MatchFrom(pat, s, j, k + 1, Append(g, SubSeq(s, i, j - 1)))
                    ELSE NoMatch
           [] e.k = "end" ->
                IF i = Len(s) + 1 THEN MatchFrom(pat, s, i, k + 1, g) ELSE NoMatch
           [] e.k = "alt" ->
                IF LitAt(s, i, e.opts[1])
                    THEN MatchFrom(pat, s, i + Len(e.opts[1]), k + 1, Append(g, e.opts[1]))
                ELSE IF LitAt(s, i, e.opts[2])
                    THEN MatchFrom(pat, s, i + Len(e.opts[2]), k + 1, Append(g, e.opts[2]))
                ELSE NoMatch

\* MatchStep on the values of its arguments (the matcher's state is
\* computed once per pattern element, not once per use)
MatchFrom(pat, s, i, k, g) ==
    CHOOSE r \in { MatchStep(a[1], a[2], a[3], a[4], a[5]) :
                      a \in {<<pat, s, i, k, g>>} } : TRUE

\* re.Pattern.search: the match at the leftmost start position that has one
RECURSIVE SearchFrom(_, _, _)
SearchAt(pat, s, i) ==
    IF i > Len(s) + 1 THEN NoMatch
    ELSE LET m == MatchFrom(pat, s, i, 1, <<>>) IN
         IF m # NoMatch THEN m ELSE SearchFrom(pat, s, i + 1)

\* SearchAt on the values of its arguments
SearchFrom(pat, s, i) ==
    CHOOSE r \in { SearchAt(a[1], a[2], a[3]) : a \in {<<pat, s, i>>} } : TRUE

search(pat, s) == SearchFrom(pat, s, 1)

\* ------------------------------------------------------- device input
\* What one readline() returns: a sequence of chunks, each either validly
\* encoded text or bytes that are not valid UTF-8.
Ok(t)  == [valid |-> TRUE,  text |-> t]
Bad    == [valid |-> FALSE, text |-> ""]

\* The lines the device sends, in the order it repeats them.
RawLines ==
    << << Ok("T: 85.0 C | H: 20.0 % | Peso: 150 | Aquecedor: ON\r\n") >>,
       << Bad, Ok("T: 25.5 C | H: 40.0 % | Peso: -3 | Aquecedor: OFF\n") >>,
       << Ok("garbage line\n") >>,
       << Ok(" \r\n"), Bad >> >>

\* bytes.decode('utf-8', errors='ignore'): invalid sequences are dropped
RECURSIVE decode(_)
decode(raw) ==
    IF raw = <<>> THEN ""
    ELSE (IF Head(raw).valid THEN Head(raw).text ELSE "") \o decode(Tail(raw))

RECURSIVE lstrip(_)
lstrip(s) ==
    IF Len(s) > 0 /\ Char(s, 1) \in Whitespace
        THEN lstrip(SubSeq(s, 2, Len(s))) ELSE s

RECURSIVE rstrip(_)
rstrip(s) ==
    IF Len(s) > 0 /\ Char(s, Len(s)) \in Whitespace
        THEN rstrip(SubSeq(s, 1, Len(s) - 1)) ELSE s

\* a strip that trims the front only
strip_left(s) == lstrip(s)

\* str.strip()
strip(s) == rstrip(lstrip(s))

\* str(e) of the exceptions pyserial raises
OpenError == "could not open port"
ReadError == "device disconnected"

\* serial.tools.list_ports.comports(), as device names
PortLists == { <<>>, <<"COM3">> }

\* lines handed to process_data in SpecParse (stripped, non-empty)
ParseLines ==
    { "T: 85.0 C | H: 20.0 % | Peso: 150 | Aquecedor: ON",
      "T: 25.5 C | H: 40.0 % | Peso: -3 | Aquecedor: OFF",
      "T:7C|H:8%|Peso:9|Aquecedor:OFF",
      "garbage line",
      "T: 85.0 C | H: 20.0 % | Peso: 150 | Aquecedor: on",
      "T: C | H: 20.0 % | Peso: 150 | Aquecedor: ON",
      "T: 85.0 C ; H: 20.0 % ; Peso: 150 ; Aquecedor: ON",
      "boot> T: 30.0 C | H: 50.0 % | Peso: 10 | Aquecedor: ON (ok)",
      "T: 1.2.3 C | H: . % | Peso: - | Aquecedor: OFF" }

\* ----------------------------------------------------------------- state
VARIABLES
    btn_connect,    \* [checked, text, style] of the connect toggle
    combo_ports,    \* [items, index, enabled] of the port selector
    btn_refresh,    \* [enabled] of the refresh button
    worker,         \* MainWindow.worker: None or the id of a reader
    lbl_temp,       \* text of the temperature card
    lbl_hum,        \* text of the humidity card
    lbl_weight,     \* text of the weight card
    lbl_heater,     \* [text, color] of the heater card
    log_view,       \* entries of the log pane, oldest first
    threads,        \* every SerialWorker created so far, by id
    events,         \* queued signal deliveries to the UI thread, FIFO
    ui,             \* [pc, handler, branch]: position of the UI thread
    clicks,         \* user clicks on the connect toggle so far
    reads,          \* readline() calls that returned data so far
    device          \* where in RawLines the device was when the program started

labels == <<lbl_temp, lbl_hum, lbl_weight, lbl_heater>>
widgets == <<btn_connect, combo_ports, btn_refresh>>
vars == <<btn_connect, combo_ports, btn_refresh, worker, lbl_temp, lbl_hum,
          lbl_weight, lbl_heater, log_view, threads, events, ui, clicks, reads,
          device>>

\* QComboBox.currentText()
currentText ==
    IF combo_ports.index = 0 THEN "" ELSE combo_ports.items[combo_ports.index]

\* log_message appending the entry twice
log_message_twice(log, msg) == Append(Append(log, msg), msg)

\* MainWindow.log_message
log_message(log, msg) == Append(log, msg)

\* SerialWorker.__init__
SerialWorker(port_name) ==
    [port_name |-> port_name, is_running |-> TRUE, is_open |-> FALSE,
     pc |-> "new", exc |-> "", errors |-> 0]

\* QThread.start(): run() begins on its own thread
start(t) == [t EXCEPT !.pc = "open"]

\* a started thread whose run() has not returned
Running(t) == t.pc \notin {"new", "done"}

\* stop() that sets the flag and returns without joining the thread
wait_nojoin(w) == TRUE

\* QThread.wait(): returns once run() has returned
wait(w) == threads[w].pc = "done"

\* toggle_connection without the empty-port check
no_port_unchecked(port) == FALSE

\* toggle_connection, line 145: if not port
no_port(port) == port = ""

\* a card text that is set to the bare captured group
fmt_bare(value, suffix) == value

\* the f-strings of process_data, lines 188-190: f"{value} °C" and the like
fmt(value, suffix) == value \o suffix

\* a heater card that is never recoloured
heater_color_fixed(heater) == "#9E9E9E"

\* colour of the heater card for a heater token
heater_color(heater) == IF heater = "ON" THEN "#F44336" ELSE "#9E9E9E"

\* MainWindow.__init__: setup_ui() then refresh_ports()
Init ==
    /\ btn_connect = [checked |-> FALSE, text |-> "Conectar", style |-> ""]
    /\ \E ports \in PortLists :
          combo_ports = [items |-> ports,
                         index |-> IF ports = <<>> THEN 0 ELSE 1,
                         enabled |-> TRUE]
    /\ btn_refresh = [enabled |-> TRUE]
    /\ worker = None
    /\ lbl_temp = "--- °C"
    /\ lbl_hum = "--- %"
    /\ lbl_weight = "--- g"
    /\ lbl_heater = [text |-> "OFF", color |-> "#9E9E9E"]
    /\ log_view = <<>>
    /\ threads = <<>>
    /\ events = <<>>
    /\ ui = [pc |-> "loop", handler |-> "init", branch |-> "none"]
    /\ clicks = 0
    /\ reads = 0
    /\ device \in 0..(Len(RawLines) - 1)

\* ------------------------------------------------------ reader thread
\* run(), line 26: serial.Serial(port, baud, timeout=1) opens or raises
WorkerOpen(w) ==
    /\ threads[w].pc = "open"
    /\ \/ threads' = [threads EXCEPT ![w].is_open = TRUE, ![w].pc = "loop"]
       \/ threads' = [threads EXCEPT ![w].exc = OpenError, ![w].pc = "except"]
    /\ UNCHANGED <<widgets, worker, labels, log_view, events, ui, clicks, reads, device>>

\* a loop that never looks at the stop flag: while True
WorkerLoop_forever(w) ==
    /\ threads[w].pc = "loop"
    /\ threads' = [threads EXCEPT ![w].pc = "read"]
    /\ UNCHANGED <<widgets, worker, labels, log_view, events, ui, clicks, reads, device>>

\* run(), line 29: while self.is_running
WorkerLoop(w) ==
    /\ threads[w].pc = "loop"
    /\ threads' = [threads EXCEPT
                     ![w].pc = IF threads[w].is_running THEN "read" ELSE "finally"]
    /\ UNCHANGED <<widgets, worker, labels, log_view, events, ui, clicks, reads, device>>

\* serial_port.readline(): the next line of the device
readline == RawLines[((device + reads) % Len(RawLines)) + 1]

\* run(), lines 30-34: nothing waiting, or a line is read, decoded,
\* stripped and emitted if non-empty, or the port raises
WorkerRead(w) ==
    /\ threads[w].pc = "read"
    /\ \/ /\ threads' = [threads EXCEPT ![w].pc = "loop"]
          /\ UNCHANGED <<events, reads, device>>
       \/ /\ threads' = [threads EXCEPT ![w].exc = ReadError, ![w].pc = "except"]
          /\ UNCHANGED <<events, reads, device>>
       \/ /\ reads < MaxReads
          /\ reads' = reads + 1
          /\ threads' = [threads EXCEPT ![w].pc = "loop"]
          /\ \E raw \in {readline} :
                LET line == strip(decode(raw)) IN
                events' = IF line # ""
                            THEN Append(events, [sig |-> "data_received",
                                                 arg |-> line, sender |-> w])
                            ELSE events
    /\ UNCHANGED <<widgets, worker, labels, log_view, ui, clicks, device>>

\* an except clause inside the while loop: the error is emitted and the
\* loop goes on
WorkerExcept_resume(w) ==
    /\ threads[w].pc = "except"
    /\ threads[w].errors < 2
    /\ events' = Append(events, [sig |-> "error_occurred",
                                 arg |-> threads[w].exc, sender |-> w])
    /\ threads' = [threads EXCEPT ![w].pc = "loop",
                                  ![w].errors = threads[w].errors + 1]
    /\ UNCHANGED <<widgets, worker, labels, log_view, ui, clicks, reads, device>>

\* an except clause that swallows the exception without telling the UI
WorkerExcept_silent(w) ==
    /\ threads[w].pc = "except"
    /\ threads' = [threads EXCEPT ![w].pc = "finally"]
    /\ UNCHANGED <<widgets, worker, labels, log_view, events, ui, clicks, reads, device>>

\* run(), lines 35-36: except Exception as e: error_occurred.emit(str(e));
\* errors counts the error notifications of this run
WorkerExcept(w) ==
    /\ threads[w].pc = "except"
    /\ events' = Append(events, [sig |-> "error_occurred",
                                 arg |-> threads[w].exc, sender |-> w])
    /\ threads' = [threads EXCEPT ![w].pc = "finally",
                                  ![w].errors = threads[w].errors + 1]
    /\ UNCHANGED <<widgets, worker, labels, log_view, ui, clicks, reads, device>>

\* a close() at the end of the try body instead of in a finally clause
WorkerFinally_leak(w) ==
    /\ threads[w].pc = "finally"
    /\ threads' = [threads EXCEPT
                     ![w].is_open = IF threads[w].exc = "" THEN FALSE ELSE @,
                     ![w].pc = "done"]
    /\ UNCHANGED <<widgets, worker, labels, log_view, events, ui, clicks, reads, device>>

\* run(), lines 37-39: finally: close the port if it is open; run() returns
WorkerFinally(w) ==
    /\ threads[w].pc = "finally"
    /\ threads' = [threads EXCEPT ![w].is_open = FALSE, ![w].pc = "done"]
    /\ UNCHANGED <<widgets, worker, labels, log_view, events, ui, clicks, reads, device>>

\* ---------------------------------------------------------- controller
\* a disconnect branch that also clears the dashboard
Disconnected_reset(h, log) ==
    /\ btn_connect' = [checked |-> FALSE, text |-> "Conectar", style |-> ""]
    /\ combo_ports' = [combo_ports EXCEPT !.enabled = TRUE]
    /\ btn_refresh' = [enabled |-> TRUE]
    /\ log_view' = log_message(log, "Desconectado.")
    /\ ui' = [pc |-> "loop", handler |-> h, branch |-> "disconnect"]
    /\ lbl_temp' = "--- °C"
    /\ lbl_hum' = "--- %"
    /\ lbl_weight' = "--- g"
    /\ lbl_heater' = [text |-> "OFF", color |-> "#9E9E9E"]

\* a disconnect branch that forgets to re-enable the refresh button
Disconnected_norefresh(h, log) ==
    /\ btn_connect' = [checked |-> FALSE, text |-> "Conectar", style |-> ""]
    /\ combo_ports' = [combo_ports EXCEPT !.enabled = TRUE]
    /\ btn_refresh' = btn_refresh
    /\ log_view' = log_message(log, "Desconectado.")
    /\ ui' = [pc |-> "loop", handler |-> h, branch |-> "disconnect"]
    /\ UNCHANGED labels

\* toggle_connection, lines 166-170: the end of the disconnect branch
Disconnected(h, log) ==
    /\ btn_connect' = [checked |-> FALSE, text |-> "Conectar", style |-> ""]
    /\ combo_ports' = [combo_ports EXCEPT !.enabled = TRUE]
    /\ btn_refresh' = [enabled |-> TRUE]
    /\ log_view' = log_message(log, "Desconectado.")
    /\ ui' = [pc |-> "loop", handler |-> h, branch |-> "disconnect"]
    /\ UNCHANGED labels

\* QAbstractButton.click() on the checkable button: the checked state is
\* flipped, then clicked is emitted and toggle_connection runs.  h is the
\* handler this happens in, log the log pane as that handler has left it.
click(h, log) ==
    IF ~btn_connect.checked
    THEN \* lines 142-159: isChecked() is now True
         LET port == currentText IN
         IF no_port(port)
         THEN /\ log_view' = log_message(log, "Selecione uma porta serial!")
              /\ btn_connect' = [btn_connect EXCEPT !.checked = FALSE]
              /\ ui' = [pc |-> "loop", handler |-> h, branch |-> "noport"]
              /\ UNCHANGED <<combo_ports, btn_refresh, worker, threads, labels>>
         ELSE /\ threads' = Append(threads, start(SerialWorker(port)))
              /\ worker' = Len(threads) + 1
              /\ btn_connect' = [checked |-> TRUE, text |-> "Desconectar",
                                 style |-> "background-color: #ffcccc; color: red;"]
              /\ combo_ports' = [combo_ports EXCEPT !.enabled = FALSE]
              /\ btn_refresh' = [enabled |-> FALSE]
              /\ log_view' = log_message(log, "Conectando a " \o port \o "...")
              /\ ui' = [pc |-> "loop", handler |-> h, branch |-> "connect"]
              /\ UNCHANGED labels
    ELSE \* lines 160-170: isChecked() is now False
         IF worker # None
         THEN \* stop(), line 42, then the UI thread blocks in wait()
              /\ threads' = [threads EXCEPT ![worker].is_running = FALSE]
              /\ btn_connect' = [btn_connect EXCEPT !.checked = FALSE]
              /\ log_view' = log
              /\ ui' = [pc |-> "wait", handler |-> h, branch |-> "disconnect"]
              /\ UNCHANGED <<combo_ports, btn_refresh, worker, labels>>
         ELSE /\ Disconnected(h, log)
              /\ UNCHANGED <<worker, threads, device>>

\* the user clicks the connect toggle
UserClick ==
    /\ ui.pc = "loop"
    /\ clicks < MaxClicks
    /\ clicks' = clicks + 1
    /\ click("clicked", log_view)
    /\ UNCHANGED <<events, reads, device>>

\* stop(), line 43, returns: wait() is over; lines 164-170 follow
JoinReturn ==
    /\ ui.pc = "wait"
    /\ wait(worker)
    /\ worker' = None
    /\ Disconnected(ui.handler, log_view)
    /\ UNCHANGED <<threads, events, clicks, reads, device>>

\* process_data, lines 173-197
process_data(line) ==
    /\ log_view' = log_message(log_view, line)
    /\ \E match \in {search(regex_pattern, line)} :
       IF match # NoMatch
       THEN /\ lbl_temp' = fmt(match[1], " °C")
            /\ lbl_hum' = fmt(match[2], " %")
            /\ lbl_weight' = fmt(match[3], " g")
            /\ lbl_heater' = [text |-> match[4], color |-> heater_color(match[4])]
       ELSE UNCHANGED labels
    /\ ui' = [pc |-> "loop", handler |-> "process_data", branch |-> "none"]

\* a queued data_received is delivered to the process_data slot
ProcessData ==
    /\ ui.pc = "loop"
    /\ events # <<>>
    /\ Head(events).sig = "data_received"
    /\ events' = Tail(events)
    /\ process_data(Head(events).arg)
    /\ UNCHANGED <<widgets, worker, threads, clicks, reads, device>>

\* handle_error, lines 200-203: a queued error_occurred is delivered
HandleError ==
    /\ ui.pc = "loop"
    /\ events # <<>>
    /\ Head(events).sig = "error_occurred"
    /\ events' = Tail(events)
    /\ click("handle_error", log_message(log_view, "ERRO: " \o Head(events).arg))
    /\ UNCHANGED <<clicks, reads, device>>

\* refresh_ports, lines 135-139, from a click on the enabled refresh button
RefreshPorts ==
    /\ ui.pc = "loop"
    /\ btn_refresh.enabled
    /\ \E ports \in PortLists :
          combo_ports' = [combo_ports EXCEPT
                            !.items = ports,
                            !.index = IF ports = <<>> THEN 0 ELSE 1]
    /\ UNCHANGED <<btn_connect, btn_refresh, worker, labels, log_view, threads,
                   events, ui, clicks, reads, device>>

Worker == \E w \in 1..Len(threads) :
             \/ WorkerOpen(w)
             \/ WorkerLoop(w)
             \/ WorkerRead(w)
             \/ WorkerExcept(w)
             \/ WorkerFinally(w)

Next ==
    \/ UserClick
    \/ JoinReturn
    \/ ProcessData
    \/ HandleError
    \/ RefreshPorts
    \/ Worker

Spec == Init /\ [][Next]_vars

\* The same program under the scheduling it runs with: the operating system
\* keeps running a started reader thread, the Qt event loop delivers every
\* queued signal, and a wait() whose thread has finished returns.  Nothing
\* obliges the user to click.
FairSpec ==
    /\ Spec
    /\ WF_vars(Worker)
    /\ WF_vars(JoinReturn)
    /\ WF_vars(ProcessData)
    /\ WF_vars(HandleError)

\* ------------------------------------------- process_data on its own
\* The slot applied to any line, whatever reader it came from.
SlotProcessData ==
    /\ ui.pc = "loop"
    /\ Len(log_view) < MaxParse
    /\ \E line \in ParseLines : process_data(line)
    /\ UNCHANGED <<widgets, worker, threads, events, clicks, reads, device>>

NextParse == SlotProcessData

SpecParse == Init /\ [][NextParse]_vars

\* ================================================================ claims
\* the idle state of the controller
Idle ==
    /\ ~btn_connect.checked
    /\ worker = None
    /\ combo_ports.enabled
    /\ btn_refresh.enabled

LastLog(log) == log[Len(log)]

\* a step in which a queued error_occurred is taken off the queue
ErrorDelivered ==
    /\ events # <<>>
    /\ Head(events).sig = "error_occurred"
    /\ events' = Tail(events)

\* a step in which a queued data_received is taken off the queue
LineDelivered ==
    /\ events # <<>>
    /\ Head(events).sig = "data_received"
    /\ events' = Tail(events)

\* a step in which the user clicks the connect toggle
UserClicked == clicks' = clicks + 1

\* C1: whenever handle_error has run to its end, the controller is idle:
\* toggle unchecked, no reader attached, port selector and refresh enabled.
C1_ErrorLeavesIdle ==
    (ui.handler = "handle_error" /\ ui.pc = "loop") => Idle

\* C2: a reader is created and started only by a step in which the user
\* clicks the connect toggle, never by a step that delivers an error event.
C2_OnlyUserStartsReader ==
    [][Len(threads') > Len(threads) => (UserClicked /\ ~ErrorDelivered)]_vars

\* C3: a step that ends the disconnect branch leaves the port selector and
\* the refresh button enabled and worker None, with the reader that was
\* attached finished; and a step that enables either control happens only
\* when the attached reader has already finished.
C3_DisconnectStopsReader ==
    [][ /\ (Len(log_view') > Len(log_view) /\ LastLog(log_view') = "Desconectado.")
           => /\ combo_ports'.enabled
              /\ btn_refresh'.enabled
              /\ worker' = None
              /\ worker # None => threads'[worker].pc = "done"
        /\ (\/ ~combo_ports.enabled /\ combo_ports'.enabled
            \/ ~btn_refresh.enabled /\ btn_refresh'.enabled)
           => /\ worker # None
              /\ threads[worker].pc = "done"
              /\ ~threads[worker].is_running ]_vars

\* a disconnect triggered by an error event has stopped an attached reader
C3_Witness ==
    /\ ui = [pc |-> "loop", handler |-> "handle_error", branch |-> "disconnect"]
    /\ threads # <<>>
    /\ LastLog(log_view) = "Desconectado."
    /\ Idle

\* C4: a step that toggles connect on (by the user or by an error event)
\* while the port text is empty creates no reader and changes nothing but
\* the log, which gains the one message of toggle_connection: the toggle is
\* unchecked again, worker is None, both controls are enabled, the four
\* fields are as before.
C4_NoPortNoReader ==
    [][ ((UserClicked \/ ErrorDelivered) /\ ~btn_connect.checked /\ currentText = "")
        => /\ threads' = threads
           /\ btn_connect' = btn_connect
           /\ worker = None /\ worker' = None
           /\ combo_ports' = combo_ports /\ combo_ports.enabled
           /\ btn_refresh' = btn_refresh /\ btn_refresh.enabled
           /\ labels' = labels
           /\ log_view' = Append(IF UserClicked THEN log_view
                                 ELSE Append(log_view, "ERRO: " \o Head(events).arg),
                                 "Selecione uma porta serial!") ]_vars

\* connect was toggled on with no port selected
C4_Witness ==
    /\ ui = [pc |-> "loop", handler |-> "clicked", branch |-> "noport"]
    /\ currentText = ""
    /\ LastLog(log_view) = "Selecione uma porta serial!"
    /\ Idle /\ threads = <<>>

\* C5: at most one reader thread is running (started and not finished) in
\* any state, so no reader is started while an earlier one still runs.
C5_AtMostOneReader ==
    Cardinality({w \in 1..Len(threads) : Running(threads[w])}) <= 1

\* a second reader is running after the first one has finished
C5_Witness ==
    /\ Len(threads) >= 2
    /\ ~Running(threads[1])
    /\ Running(threads[2])

\* the captures of the most recent entry of the log that matches the pattern
RECURSIVE LastParsed(_)
LastParsed(log) ==
    IF log = <<>> THEN NoMatch
    ELSE LET m == search(regex_pattern, LastLog(log)) IN
         IF m # NoMatch THEN m ELSE LastParsed(SubSeq(log, 1, Len(log) - 1))

\* C6: in every state the four fields show the captures of the most recent
\* matching line that was processed, or the initial defaults if there is
\* none (lines are logged verbatim; no other log entry matches the pattern).
C6_FieldsFromLastMatch ==
    LET m == LastParsed(log_view) IN
    IF m = NoMatch
    THEN /\ lbl_temp = "--- °C"
         /\ lbl_hum = "--- %"
         /\ lbl_weight = "--- g"
         /\ lbl_heater.text = "OFF"
    ELSE /\ lbl_temp = m[1] \o " °C"
         /\ lbl_hum = m[2] \o " %"
         /\ lbl_weight = m[3] \o " g"
         /\ lbl_heater.text = m[4]

\* a matching line, then a non-matching one, then a disconnect by the user
C6_Witness ==
    /\ Len(log_view) >= 4
    /\ LastLog(log_view) = "Desconectado."
    /\ log_view[Len(log_view) - 1] = "garbage line"
    /\ search(regex_pattern, log_view[Len(log_view) - 2]) # NoMatch
    /\ lbl_temp = "25.5 °C"

\* a step of process_data: the handler ran and logged one line
ProcessStep ==
    /\ ui'.handler = "process_data"
    /\ Len(log_view') = Len(log_view) + 1

\* C7: after process_data of a matching line the four fields are the four
\* captured groups with only the unit suffix added.
C7_FieldsAreGroups ==
    [][ ProcessStep =>
        LET m == search(regex_pattern, LastLog(log_view')) IN
        m # NoMatch =>
           /\ lbl_temp' = m[1] \o " °C"
           /\ lbl_hum' = m[2] \o " %"
           /\ lbl_weight' = m[3] \o " g"
           /\ lbl_heater'.text = m[4] ]_vars

\* the example of the specification has been processed
C7_Witness ==
    /\ ui.handler = "process_data"
    /\ LastLog(log_view) = "T: 85.0 C | H: 20.0 % | Peso: 150 | Aquecedor: ON"
    /\ lbl_temp = "85.0 °C"
    /\ lbl_hum = "20.0 %"
    /\ lbl_weight = "150 g"
    /\ lbl_heater.text = "ON"

\* C8: delivering a line that does not match appends exactly that line to
\* the log and leaves the four fields, the heater colour, the toggle, the
\* worker and the controls unchanged.
C8_NoMatchOnlyLogs ==
    [][ (LineDelivered /\ search(regex_pattern, Head(events).arg) = NoMatch)
        => /\ log_view' = Append(log_view, Head(events).arg)
           /\ UNCHANGED <<labels, widgets, worker>> ]_vars

\* a non-matching line was processed while the dashboard showed a reading
C8_Witness ==
    /\ ui.handler = "process_data"
    /\ LastLog(log_view) = "garbage line"
    /\ lbl_temp = "25.5 °C"
    /\ lbl_weight = "-3 g"
    /\ btn_connect.checked

\* a well-formed decimal number: digits with at most one point between them
WellFormed(t) ==
    /\ Len(t) > 0
    /\ Char(t, 1) \in Digits
    /\ Char(t, Len(t)) \in Digits
    /\ Cardinality({i \in 1..Len(t) : Char(t, i) = "."}) <= 1
    /\ \A i \in 1..Len(t) : Char(t, i) \in DigitDot

\* the same, optionally negative
WellFormedSigned(t) ==
    IF Len(t) > 0 /\ Char(t, 1) = "-"
        THEN WellFormed(SubSeq(t, 2, Len(t))) ELSE WellFormed(t)

\* the whole line is one record of the wire shape
\* 'T: <float> C | H: <float> % | Peso: <float> | Aquecedor: <ON|OFF>'
WireShape(s) ==
    LET m == MatchFrom(regex_pattern \o << [k |-> "end"] >>, s, 1, 1, <<>>) IN
    /\ m # NoMatch
    /\ WellFormed(m[1])
    /\ WellFormed(m[2])
    /\ WellFormedSigned(m[3])

\* C9: a line event changes the dashboard only if the whole line has the
\* wire shape, with well-formed numbers and nothing before or after it.
C9_OnlyWireShape ==
    [][ (ProcessStep /\ labels' # labels) => WireShape(LastLog(log_view')) ]_vars

\* C10: in every state the heater card is #F44336 exactly when its text is
\* "ON", and #9E9E9E otherwise.
C10_HeaterColour ==
    lbl_heater.color = (IF lbl_heater.text = "ON" THEN "#F44336" ELSE "#9E9E9E")

\* the heater went ON and then OFF again
C10_Witness ==
    /\ lbl_heater = [text |-> "OFF", color |-> "#9E9E9E"]
    /\ Len(log_view) >= 2
    /\ \E i \in 1..(Len(log_view) - 1) :
          /\ search(regex_pattern, log_view[i]) # NoMatch
          /\ search(regex_pattern, log_view[i])[4] = "ON"
          /\ search(regex_pattern, log_view[i + 1]) # NoMatch
          /\ search(regex_pattern, log_view[i + 1])[4] = "OFF"

\* a step in which reader w emits the signal sig (a queued delivery is added)
Emitted(w, sig) ==
    /\ Len(events') = Len(events) + 1
    /\ LastLog(events').sender = w
    /\ LastLog(events').sig = sig

\* C11: a run of a reader emits its error notification exactly once if it
\* fails (opening or reading raised) and never if it ends by a stop request,
\* and emits no line notification after the error notification.
C11_OneErrorPerFailure ==
    [][ \A w \in 1..Len(threads) :
          /\ Emitted(w, "error_occurred")
                => /\ threads[w].errors = 0
                   /\ threads[w].exc # ""
          /\ Emitted(w, "data_received")
                => /\ threads[w].errors = 0
                   /\ threads[w].exc = ""
          /\ threads'[w].errors # threads[w].errors
                => Emitted(w, "error_occurred")
          /\ threads'[w].pc = "done"
                => threads'[w].errors = (IF threads'[w].exc # "" THEN 1 ELSE 0) ]_vars

\* a run that emitted a line, then failed while reading, has finished
C11_Witness ==
    /\ threads # <<>>
    /\ threads[1].pc = "done"
    /\ threads[1].exc = ReadError
    /\ threads[1].errors = 1
    /\ Len(events) = 2
    /\ events[1].sig = "data_received"
    /\ events[2].sig = "error_occurred"

\* C12: a reader that has finished holds no open port, whatever way it
\* ended; and a failed run closes its port only after it has emitted the
\* error notification.
C12_PortReleased ==
    [][ \A w \in 1..Len(threads) :
          /\ threads'[w].pc = "done" => ~threads'[w].is_open
          /\ (threads[w].is_open /\ ~threads'[w].is_open /\ threads[w].exc # "")
                => threads[w].errors = 1
          /\ Emitted(w, "error_occurred")
                => threads'[w].is_open = threads[w].is_open ]_vars

\* a reader that had opened its port failed while reading and has finished
C12_Witness ==
    /\ threads # <<>>
    /\ threads[1].pc = "done"
    /\ threads[1].exc = ReadError
    /\ ~threads[1].is_open

\* the connected state of the controller
Connected ==
    /\ btn_connect.checked
    /\ worker # None
    /\ ~combo_ports.enabled
    /\ ~btn_refresh.enabled

\* C13: whenever no handler is running on the UI thread the controller is
\* either idle or connected, never in a mixed state.
C13_IdleOrConnected ==
    ui.pc = "loop" => (Idle \/ Connected)

\* connected to a second reader, between handlers
C13_Witness ==
    /\ ui.pc = "loop"
    /\ Connected
    /\ worker = 2
    /\ ui.handler = "clicked"

\* C14: once stop() has set the flag and the UI thread waits in the join,
\* the reader eventually finishes and the join returns, leaving no reader
\* attached or running.
C14_DisconnectCompletes ==
    (ui.pc = "wait")
       ~> (/\ ui.pc = "loop"
           /\ worker = None
           /\ \A w \in 1..Len(threads) : ~Running(threads[w]))

\* the join has returned although the reader emitted an error while the UI
\* thread was blocked: the notification is still queued
C14_Witness ==
    /\ ui = [pc |-> "loop", handler |-> "clicked", branch |-> "disconnect"]
    /\ worker = None
    /\ threads[1].pc = "done"
    /\ ~threads[1].is_running
    /\ events # <<>>
    /\ Head(events).sig = "error_occurred"

\* C15: if the attached reader has failed while the controller is connected,
\* the controller eventually is idle, with no user action needed.
C15_FailureLeadsToIdle ==
    (Connected /\ threads[worker].exc # "") ~> Idle

\* the error of the attached reader was delivered and forced the disconnect
C15_Witness ==
    /\ ui = [pc |-> "loop", handler |-> "handle_error", branch |-> "disconnect"]
    /\ Idle
    /\ clicks = 1
    /\ threads[1].exc = ReadError
    /\ events = <<>>

\* C16: every queued line notification carries non-empty text that neither
\* starts nor ends with whitespace, and process_data never logs an empty
\* line.
C16_LinesTrimmed ==
    /\ \A i \in 1..Len(events) :
          events[i].sig = "data_received"
             => /\ Len(events[i].arg) > 0
                /\ Char(events[i].arg, 1) \notin Whitespace
                /\ Char(events[i].arg, Len(events[i].arg)) \notin Whitespace
    /\ \A i \in 1..Len(log_view) : log_view[i] # ""

\* a read returned only whitespace and undecodable bytes: nothing was
\* emitted, nothing was logged
C16_Witness ==
    /\ reads = 1
    /\ events = <<>>
    /\ log_view = <<"Conectando a COM3...">>
    /\ threads[1].exc = ""

\* C17: every line event delivered to process_data was emitted by the
\* reader that is attached at the time of delivery.
C17_LinesFromAttachedReader ==
    [][ LineDelivered => Head(events).sender = worker ]_vars

====
